---- MODULE Spec2Model ----
(* Connection admission, registry and shutdown of the JSON echo server     *)
(* in high-performance-go-server.go: the accept loop, one session          *)
(* goroutine per accepted connection, and Server.Shutdown.                 *)
EXTENDS FiniteSets, Integers, Sequences, TLC

\* Config.MaxConnections: capacity of the connSem channel.
MaxConnections == 1
\* Number of clients that ever try to connect.
NumConns == 3
\* Number of times Shutdown may be called.
MaxShutdownCalls == 2

Conns == 1..NumConns
NoConn == 0
\* Identity of the Shutdown caller as holder of connMutex.
ShutdownCaller == NumConns + 1

VARIABLES
    shutdown,      \* s.shutdown is closed
    listener,      \* "open" | "closed"
    backlog,       \* connections waiting in the listener's accept queue (FIFO)
    accepted,      \* connections returned by listener.Accept()
    connSem,       \* number of tokens in the connSem channel
    acceptPc,      \* position of acceptConnections
    acceptConn,    \* conn held by acceptConnections between Accept and go
    sessPc,        \* position of handleConnection(c)
    sessCloses,    \* number of conn.Close() calls made by handleConnection(c)
    sessReleases,  \* number of <-s.connSem receives made by handleConnection(c)
    closedBy,      \* who closed the stream first: "open" | "session" | "shutdown"
    conns,         \* s.conns
    connMutex,     \* holder of s.connMutex (NoConn when free)
    shutPc,        \* position of Shutdown
    shutCalls,     \* number of Shutdown invocations so far
    shutSnapshot,  \* the s.conns that Shutdown's range loop iterates
    shutVisited,   \* connections Shutdown has called Close on
    closeErrLog,   \* connections for which Shutdown logged "Error closing connection"
    shutResult,    \* value returned by Shutdown
    openAtShutdown,\* connections accepted and not finished when Shutdown was invoked
    ctxDone,       \* ctx.Done() is closed
    panicked,      \* the process died of a runtime panic
    msgFields,     \* JSON keys of the fields of the Message struct that is compiled in
    inStream,      \* frames the client sends on one connection
    outStream,     \* responses written to that connection
    msg,           \* the msg variable of handleConnection's loop
    msgPc,         \* position in handleConnection's loop: "off" | "decode" | "encode" | "exit"
    nDecoded,      \* number of successful decoder.Decode calls
    clock          \* the value time.Now() returns next

\* The admission, registry and shutdown state.
coreVars == <<shutdown, listener, backlog, accepted, connSem, acceptPc, acceptConn,
              sessPc, sessCloses, sessReleases, closedBy, conns,
              connMutex, shutPc, shutCalls, shutSnapshot, shutVisited, closeErrLog,
              shutResult, openAtShutdown, ctxDone, panicked>>

\* The contents of one connection's request/response exchange.
msgVars == <<msgFields, inStream, outStream, msg, msgPc, nDecoded, clock>>

vars == <<coreVars, msgVars>>

acceptVars == <<acceptPc, acceptConn>>
sessVars == <<sessPc, sessCloses, sessReleases>>
shutVars == <<shutPc, shutCalls, shutSnapshot, shutVisited, closeErrLog,
              shutResult, openAtShutdown>>

\* A panicking goroutine takes the whole process down.
Running == ~panicked

\* NewServer followed by a successful Start.
Init ==
    /\ shutdown = FALSE
    /\ listener = "open"
    /\ backlog = <<>>
    /\ accepted = {}
    /\ connSem = 0
    /\ acceptPc = "select"
    /\ acceptConn = NoConn
    /\ sessPc = [c \in Conns |-> "none"]
    /\ sessCloses = [c \in Conns |-> 0]
    /\ sessReleases = [c \in Conns |-> 0]
    /\ closedBy = [c \in Conns |-> "open"]
    /\ conns = {}
    /\ connMutex = NoConn
    /\ shutPc = "idle"
    /\ shutCalls = 0
    /\ shutSnapshot = {}
    /\ shutVisited = {}
    /\ closeErrLog = {}
    /\ shutResult = "none"
    /\ openAtShutdown = {}
    /\ ctxDone = FALSE
    /\ panicked = FALSE
    /\ msgFields = {}
    /\ inStream = <<>>
    /\ outStream = <<>>
    /\ msg = <<>>
    /\ msgPc = "off"
    /\ nDecoded = 0
    /\ clock = 0

-----------------------------------------------------------------------------
(* Helpers *)

\* conn.Close() returns an error when the stream is already closed.
CloseFails(c) == closedBy[c] # "open"

\* Faulty variant: the send never blocks (the channel is treated as unbounded).
CanAcquireUnbounded == TRUE

\* A send on the buffered channel connSem proceeds only below capacity.
CanAcquire == connSem < MaxConnections

\* Faulty variant: Lock never waits.
CanLockAlways == TRUE

\* sync.RWMutex.Lock proceeds only when nobody holds the lock.
CanLock == connMutex = NoConn

\* Faulty variant: the deadline is never reported.
CtxErrIgnored(done) == "nil"

\* ctx.Err() of the context.WithTimeout built in main.
CtxErr(done) == IF done THEN "DeadlineExceeded" ELSE "nil"

\* The close failures carried by the value Shutdown returns: none, the
\* value is ctx.Err() or nil.
ReturnedCloseErrors == {}

\* The connections on which the Close issued by Shutdown failed: those a
\* session had closed first.
FailedCloses == {c \in shutVisited : closedBy[c] = "session"}

\* Session goroutines that have been started with the go statement.
Dispatched == {c \in Conns : sessPc[c] # "none"}

\* Accepted connections whose permit has not been given back by a session.
Holding == {c \in accepted : sessReleases[c] = 0}

\* Session goroutines that have not yet run the deferred <-s.connSem.
PermitHolders ==
    {c \in Conns : sessPc[c] \in {"start", "adding", "decode", "encode",
                                  "deferClose", "deferRelease"}}

\* 1 while acceptConnections is between its send on connSem and either
\* the go statement or the receive that gives the token back.
LoopPermit == IF acceptPc \in {"accept", "acceptErr", "dispatch"} THEN 1 ELSE 0

\* Goroutines inside a critical section of connMutex.
InCritical ==
    Cardinality({c \in Conns : sessPc[c] \in {"adding", "removing"}})
        + (IF shutPc = "closing" THEN 1 ELSE 0)

\* Position of c in the accept queue, 0 when it is not queued.
Pos(c) ==
    IF \E i \in 1..Len(backlog) : backlog[i] = c
    THEN CHOOSE i \in 1..Len(backlog) : backlog[i] = c
    ELSE 0

-----------------------------------------------------------------------------
(* Environment: clients and the deadline timer *)

\* A client completes a TCP handshake and waits in the accept queue.
ClientConnect ==
    /\ Running
    /\ listener = "open"
    /\ Len(backlog) + Cardinality(accepted) < NumConns
    /\ backlog' = Append(backlog, Len(backlog) + Cardinality(accepted) + 1)
    /\ UNCHANGED <<shutdown, listener, accepted, connSem, acceptVars, sessVars,
                   closedBy, conns, connMutex, shutVars, ctxDone, panicked>>
    /\ UNCHANGED msgVars

\* The timeout of the context main passes to Shutdown elapses during the call.
CtxExpire ==
    /\ Running
    /\ ~ctxDone
    /\ shutPc \notin {"idle", "returned"}
    /\ ctxDone' = TRUE
    /\ UNCHANGED <<shutdown, listener, backlog, accepted, connSem, acceptVars,
                   sessVars, closedBy, conns, connMutex, shutVars, panicked>>
    /\ UNCHANGED msgVars

-----------------------------------------------------------------------------
(* acceptConnections *)

\* Faulty variant: the outer select has no shutdown case.
AcceptLoopNoShutdownCase ==
    /\ FALSE
    /\ UNCHANGED vars

\* select: case <-s.shutdown: return
AcceptLoopShutdown ==
    /\ Running
    /\ acceptPc = "select"
    /\ shutdown
    /\ acceptPc' = "done"
    /\ UNCHANGED <<shutdown, listener, backlog, accepted, connSem, acceptConn,
                   sessVars, closedBy, conns, connMutex, shutVars, ctxDone,
                   panicked>>
    /\ UNCHANGED msgVars

\* Faulty variant: the loop goes on to Accept without sending to connSem.
AcquirePermitNoSend ==
    /\ Running
    /\ acceptPc = "select"
    /\ acceptPc' = "accept"
    /\ UNCHANGED <<shutdown, listener, backlog, accepted, connSem, acceptConn,
                   sessVars, closedBy, conns, connMutex, shutVars, ctxDone,
                   panicked>>
    /\ UNCHANGED msgVars

\* select: case s.connSem <- struct{}{}
AcquirePermit ==
    /\ Running
    /\ acceptPc = "select"
    /\ CanAcquire
    /\ connSem' = connSem + 1
    /\ acceptPc' = "accept"
    /\ UNCHANGED <<shutdown, listener, backlog, accepted, acceptConn, sessVars,
                   closedBy, conns, connMutex, shutVars, ctxDone, panicked>>
    /\ UNCHANGED msgVars

\* s.listener.Accept() returns the connection at the head of the queue.
AcceptOK ==
    /\ Running
    /\ acceptPc = "accept"
    /\ listener = "open"
    /\ backlog # <<>>
    /\ accepted' = accepted \cup {Head(backlog)}
    /\ acceptConn' = Head(backlog)
    /\ backlog' = Tail(backlog)
    /\ acceptPc' = "dispatch"
    /\ UNCHANGED <<shutdown, listener, connSem, sessVars, closedBy, conns,
                   connMutex, shutVars, ctxDone, panicked>>
    /\ UNCHANGED msgVars

\* s.listener.Accept() returns an error: always on a closed listener,
\* possibly (a transient failure) on an open one.
AcceptFail ==
    /\ Running
    /\ acceptPc = "accept"
    /\ acceptPc' = "acceptErr"
    /\ UNCHANGED <<shutdown, listener, backlog, accepted, connSem, acceptConn,
                   sessVars, closedBy, conns, connMutex, shutVars, ctxDone,
                   panicked>>
    /\ UNCHANGED msgVars

\* inner select: case <-s.shutdown: return (the permit is kept)
AcceptErrShutdown ==
    /\ Running
    /\ acceptPc = "acceptErr"
    /\ shutdown
    /\ acceptPc' = "done"
    /\ UNCHANGED <<shutdown, listener, backlog, accepted, connSem, acceptConn,
                   sessVars, closedBy, conns, connMutex, shutVars, ctxDone,
                   panicked>>
    /\ UNCHANGED msgVars

\* Faulty variant: a failed Accept keeps the permit.
AcceptErrContinueLeak ==
    /\ Running
    /\ acceptPc = "acceptErr"
    /\ ~shutdown
    /\ acceptPc' = "select"
    /\ UNCHANGED <<shutdown, listener, backlog, accepted, connSem, acceptConn,
                   sessVars, closedBy, conns, connMutex, shutVars, ctxDone,
                   panicked>>
    /\ UNCHANGED msgVars

\* Faulty variant: a failed Accept ends the loop.
AcceptErrContinueExit ==
    /\ Running
    /\ acceptPc = "acceptErr"
    /\ ~shutdown
    /\ connSem > 0
    /\ connSem' = connSem - 1
    /\ acceptPc' = "done"
    /\ UNCHANGED <<shutdown, listener, backlog, accepted, acceptConn, sessVars,
                   closedBy, conns, connMutex, shutVars, ctxDone, panicked>>
    /\ UNCHANGED msgVars

\* inner select: default: log, <-s.connSem, continue
AcceptErrContinue ==
    /\ Running
    /\ acceptPc = "acceptErr"
    /\ ~shutdown
    /\ connSem > 0
    /\ connSem' = connSem - 1
    /\ acceptPc' = "select"
    /\ UNCHANGED <<shutdown, listener, backlog, accepted, acceptConn, sessVars,
                   closedBy, conns, connMutex, shutVars, ctxDone, panicked>>
    /\ UNCHANGED msgVars

\* go s.handleConnection(conn)
Dispatch ==
    /\ Running
    /\ acceptPc = "dispatch"
    /\ sessPc' = [sessPc EXCEPT ![acceptConn] = "start"]
    /\ acceptConn' = NoConn
    /\ acceptPc' = "select"
    /\ UNCHANGED <<shutdown, listener, backlog, accepted, connSem, sessCloses,
                   sessReleases, closedBy, conns, connMutex,
                   shutVars, ctxDone, panicked>>
    /\ UNCHANGED msgVars

-----------------------------------------------------------------------------
(* handleConnection(c) *)

\* addConnection: s.connMutex.Lock()
AddLock(c) ==
    /\ Running
    /\ sessPc[c] = "start"
    /\ CanLock
    /\ connMutex' = c
    /\ sessPc' = [sessPc EXCEPT ![c] = "adding"]
    /\ UNCHANGED <<shutdown, listener, backlog, accepted, connSem, acceptVars,
                   sessCloses, sessReleases, closedBy, conns,
                   shutVars, ctxDone, panicked>>
    /\ UNCHANGED msgVars

\* addConnection: s.conns[conn] = struct{}{} and the deferred Unlock
AddConnection(c) ==
    /\ Running
    /\ sessPc[c] = "adding"
    /\ conns' = conns \cup {c}
    /\ connMutex' = NoConn
    /\ sessPc' = [sessPc EXCEPT ![c] = "decode"]
    /\ UNCHANGED <<shutdown, listener, backlog, accepted, connSem, acceptVars,
                   sessCloses, sessReleases, closedBy, shutVars,
                   ctxDone, panicked>>
    /\ UNCHANGED msgVars

\* decoder.Decode(&msg) returns a message.
DecodeOK(c) ==
    /\ Running
    /\ sessPc[c] = "decode"
    /\ closedBy[c] = "open"
    /\ sessPc' = [sessPc EXCEPT ![c] = "encode"]
    /\ UNCHANGED <<shutdown, listener, backlog, accepted, connSem, acceptVars,
                   sessCloses, sessReleases, closedBy, conns,
                   connMutex, shutVars, ctxDone, panicked>>
    /\ UNCHANGED msgVars

\* decoder.Decode(&msg) returns EOF (the client closed its end): return
DecodeEOF(c) ==
    /\ Running
    /\ sessPc[c] = "decode"
    /\ closedBy[c] = "open"
    /\ sessPc' = [sessPc EXCEPT ![c] = "deferClose"]
    /\ UNCHANGED <<shutdown, listener, backlog, accepted, connSem, acceptVars,
                   sessCloses, sessReleases, closedBy, conns, connMutex,
                   shutVars, ctxDone, panicked>>
    /\ UNCHANGED msgVars

\* decoder.Decode(&msg) returns another error (malformed input, or the
\* stream was closed under the read by Shutdown): log, return
DecodeErr(c) ==
    /\ Running
    /\ sessPc[c] = "decode"
    /\ sessPc' = [sessPc EXCEPT ![c] = "deferClose"]
    /\ UNCHANGED <<shutdown, listener, backlog, accepted, connSem, acceptVars,
                   sessCloses, sessReleases, closedBy, conns, connMutex,
                   shutVars, ctxDone, panicked>>
    /\ UNCHANGED msgVars

\* msg.Time = time.Now(); encoder.Encode(msg) succeeds.
EncodeOK(c) ==
    /\ Running
    /\ sessPc[c] = "encode"
    /\ closedBy[c] = "open"
    /\ sessPc' = [sessPc EXCEPT ![c] = "decode"]
    /\ UNCHANGED <<shutdown, listener, backlog, accepted, connSem, acceptVars,
                   sessCloses, sessReleases, closedBy, conns,
                   connMutex, shutVars, ctxDone, panicked>>
    /\ UNCHANGED msgVars

\* Faulty variant: the cleanup is not deferred, so this return skips it.
EncodeErrNoCleanup(c) ==
    /\ Running
    /\ sessPc[c] = "encode"
    /\ sessPc' = [sessPc EXCEPT ![c] = "done"]
    /\ UNCHANGED <<shutdown, listener, backlog, accepted, connSem, acceptVars,
                   sessCloses, sessReleases, closedBy, conns, connMutex,
                   shutVars, ctxDone, panicked>>
    /\ UNCHANGED msgVars

\* encoder.Encode(msg) fails (write error, or the stream was closed by
\* Shutdown): log, return
EncodeErr(c) ==
    /\ Running
    /\ sessPc[c] = "encode"
    /\ sessPc' = [sessPc EXCEPT ![c] = "deferClose"]
    /\ UNCHANGED <<shutdown, listener, backlog, accepted, connSem, acceptVars,
                   sessCloses, sessReleases, closedBy, conns, connMutex,
                   shutVars, ctxDone, panicked>>
    /\ UNCHANGED msgVars

\* Faulty variant: the deferred function does not close the stream.
DeferCloseSkipped(c) ==
    /\ Running
    /\ sessPc[c] = "deferClose"
    /\ sessPc' = [sessPc EXCEPT ![c] = "deferRelease"]
    /\ UNCHANGED <<shutdown, listener, backlog, accepted, connSem, acceptVars,
                   sessCloses, sessReleases, closedBy, conns, connMutex,
                   shutVars, ctxDone, panicked>>
    /\ UNCHANGED msgVars

\* deferred: conn.Close()
DeferClose(c) ==
    /\ Running
    /\ sessPc[c] = "deferClose"
    /\ sessCloses' = [sessCloses EXCEPT ![c] = @ + 1]
    /\ closedBy' = [closedBy EXCEPT ![c] = IF CloseFails(c) THEN @ ELSE "session"]
    /\ sessPc' = [sessPc EXCEPT ![c] = "deferRelease"]
    /\ UNCHANGED <<shutdown, listener, backlog, accepted, connSem, acceptVars,
                   sessReleases, conns, connMutex, shutVars,
                   ctxDone, panicked>>
    /\ UNCHANGED msgVars

\* Faulty variant: the deferred function does not receive from connSem.
DeferReleaseSkipped(c) ==
    /\ Running
    /\ sessPc[c] = "deferRelease"
    /\ sessPc' = [sessPc EXCEPT ![c] = "deferRemove"]
    /\ UNCHANGED <<shutdown, listener, backlog, accepted, connSem, acceptVars,
                   sessCloses, sessReleases, closedBy, conns, connMutex,
                   shutVars, ctxDone, panicked>>
    /\ UNCHANGED msgVars

\* deferred: <-s.connSem
DeferRelease(c) ==
    /\ Running
    /\ sessPc[c] = "deferRelease"
    /\ connSem > 0
    /\ connSem' = connSem - 1
    /\ sessReleases' = [sessReleases EXCEPT ![c] = @ + 1]
    /\ sessPc' = [sessPc EXCEPT ![c] = "deferRemove"]
    /\ UNCHANGED <<shutdown, listener, backlog, accepted, acceptVars,
                   sessCloses, closedBy, conns, connMutex,
                   shutVars, ctxDone, panicked>>
    /\ UNCHANGED msgVars

\* deferred removeConnection: s.connMutex.Lock()
RemoveLock(c) ==
    /\ Running
    /\ sessPc[c] = "deferRemove"
    /\ CanLock
    /\ connMutex' = c
    /\ sessPc' = [sessPc EXCEPT ![c] = "removing"]
    /\ UNCHANGED <<shutdown, listener, backlog, accepted, connSem, acceptVars,
                   sessCloses, sessReleases, closedBy, conns,
                   shutVars, ctxDone, panicked>>
    /\ UNCHANGED msgVars

\* Faulty variant: the map is emptied instead of one key being deleted.
RemoveConnectionClearsAll(c) ==
    /\ Running
    /\ sessPc[c] = "removing"
    /\ conns' = {}
    /\ connMutex' = NoConn
    /\ sessPc' = [sessPc EXCEPT ![c] = "done"]
    /\ UNCHANGED <<shutdown, listener, backlog, accepted, connSem, acceptVars,
                   sessCloses, sessReleases, closedBy, shutVars,
                   ctxDone, panicked>>
    /\ UNCHANGED msgVars

\* deferred removeConnection: delete(s.conns, conn) and the deferred Unlock
RemoveConnection(c) ==
    /\ Running
    /\ sessPc[c] = "removing"
    /\ conns' = conns \ {c}
    /\ connMutex' = NoConn
    /\ sessPc' = [sessPc EXCEPT ![c] = "done"]
    /\ UNCHANGED <<shutdown, listener, backlog, accepted, connSem, acceptVars,
                   sessCloses, sessReleases, closedBy, shutVars,
                   ctxDone, panicked>>
    /\ UNCHANGED msgVars

-----------------------------------------------------------------------------
(* Shutdown *)

\* First call: close(s.shutdown)
ShutdownFire ==
    /\ Running
    /\ shutPc \in {"idle", "returned"}
    /\ shutCalls < MaxShutdownCalls
    /\ ~shutdown
    /\ shutdown' = TRUE
    /\ shutCalls' = shutCalls + 1
    /\ shutPc' = "fired"
    /\ openAtShutdown' = {c \in accepted : sessPc[c] # "done"}
    /\ UNCHANGED <<listener, backlog, accepted, connSem, acceptVars, sessVars,
                   closedBy, conns, connMutex, shutSnapshot, shutVisited,
                   closeErrLog, shutResult, ctxDone, panicked>>
    /\ UNCHANGED msgVars

\* Later call: close(s.shutdown) on a closed channel is a runtime panic.
ShutdownPanic ==
    /\ Running
    /\ shutPc \in {"idle", "returned"}
    /\ shutCalls < MaxShutdownCalls
    /\ shutdown
    /\ shutCalls' = shutCalls + 1
    /\ panicked' = TRUE
    /\ UNCHANGED <<shutdown, listener, backlog, accepted, connSem, acceptVars,
                   sessVars, closedBy, conns, connMutex, shutPc, shutSnapshot,
                   shutVisited, closeErrLog, shutResult, openAtShutdown,
                   ctxDone>>
    /\ UNCHANGED msgVars

\* Faulty variant: the listener is left open and the close-all comes next.
ShutdownCloseListenerSkipped ==
    /\ Running
    /\ shutPc = "fired"
    /\ shutPc' = "lock"
    /\ UNCHANGED <<shutdown, listener, backlog, accepted, connSem, acceptVars,
                   sessVars, closedBy, conns, connMutex, shutCalls,
                   shutSnapshot, shutVisited, closeErrLog, shutResult,
                   openAtShutdown, ctxDone, panicked>>
    /\ UNCHANGED msgVars

\* s.listener.Close()
ShutdownCloseListener ==
    /\ Running
    /\ shutPc = "fired"
    /\ listener' = "closed"
    /\ shutPc' = "lock"
    /\ UNCHANGED <<shutdown, backlog, accepted, connSem, acceptVars, sessVars,
                   closedBy, conns, connMutex, shutCalls, shutSnapshot,
                   shutVisited, closeErrLog, shutResult, openAtShutdown,
                   ctxDone, panicked>>
    /\ UNCHANGED msgVars

\* s.connMutex.Lock(); the range loop iterates the map as it is now.
ShutdownLock ==
    /\ Running
    /\ shutPc = "lock"
    /\ CanLock
    /\ connMutex' = ShutdownCaller
    /\ shutSnapshot' = conns
    /\ shutVisited' = {}
    /\ shutPc' = "closing"
    /\ UNCHANGED <<shutdown, listener, backlog, accepted, connSem, acceptVars,
                   sessVars, closedBy, conns, shutCalls, closeErrLog,
                   shutResult, openAtShutdown, ctxDone, panicked>>
    /\ UNCHANGED msgVars

\* One iteration of the range loop: conn.Close(), log the error if any.
ShutdownCloseConn(c) ==
    /\ Running
    /\ shutPc = "closing"
    /\ c \in conns \ shutVisited
    /\ closeErrLog' = IF CloseFails(c) THEN closeErrLog \cup {c} ELSE closeErrLog
    /\ closedBy' = [closedBy EXCEPT ![c] = IF CloseFails(c) THEN @ ELSE "shutdown"]
    /\ shutVisited' = shutVisited \cup {c}
    /\ UNCHANGED <<shutdown, listener, backlog, accepted, connSem, acceptVars,
                   sessVars, conns, connMutex, shutPc, shutCalls, shutSnapshot,
                   shutResult, openAtShutdown, ctxDone, panicked>>
    /\ UNCHANGED msgVars

\* Faulty variant: the range loop also stops at the first failed Close.
ShutdownUnlockOnError ==
    /\ Running
    /\ shutPc = "closing"
    /\ (conns \subseteq shutVisited \/ closeErrLog # {})
    /\ connMutex' = NoConn
    /\ shutPc' = "check"
    /\ UNCHANGED <<shutdown, listener, backlog, accepted, connSem, acceptVars,
                   sessVars, closedBy, conns, shutCalls, shutSnapshot,
                   shutVisited, closeErrLog, shutResult, openAtShutdown,
                   ctxDone, panicked>>
    /\ UNCHANGED msgVars

\* The range loop is over: s.connMutex.Unlock()
ShutdownUnlock ==
    /\ Running
    /\ shutPc = "closing"
    /\ conns \subseteq shutVisited
    /\ connMutex' = NoConn
    /\ shutPc' = "check"
    /\ UNCHANGED <<shutdown, listener, backlog, accepted, connSem, acceptVars,
                   sessVars, closedBy, conns, shutCalls, shutSnapshot,
                   shutVisited, closeErrLog, shutResult, openAtShutdown,
                   ctxDone, panicked>>
    /\ UNCHANGED msgVars

\* Faulty variant: Shutdown joins the session goroutines before returning.
ShutdownReturnAfterSessions ==
    /\ Running
    /\ shutPc = "check"
    /\ \A c \in Conns : sessPc[c] \in {"none", "done"}
    /\ shutResult' = CtxErr(ctxDone)
    /\ shutPc' = "returned"
    /\ UNCHANGED <<shutdown, listener, backlog, accepted, connSem, acceptVars,
                   sessVars, closedBy, conns, connMutex, shutCalls,
                   shutSnapshot, shutVisited, closeErrLog, openAtShutdown,
                   ctxDone, panicked>>
    /\ UNCHANGED msgVars

\* select { case <-ctx.Done(): return ctx.Err(); default: return nil }
ShutdownReturn ==
    /\ Running
    /\ shutPc = "check"
    /\ shutResult' = CtxErr(ctxDone)
    /\ shutPc' = "returned"
    /\ UNCHANGED <<shutdown, listener, backlog, accepted, connSem, acceptVars,
                   sessVars, closedBy, conns, connMutex, shutCalls,
                   shutSnapshot, shutVisited, closeErrLog, openAtShutdown,
                   ctxDone, panicked>>
    /\ UNCHANGED msgVars

-----------------------------------------------------------------------------
(* Specifications *)

AcceptLoopNext ==
    \/ AcceptLoopShutdown
    \/ AcquirePermit
    \/ AcceptOK
    \/ AcceptFail
    \/ AcceptErrShutdown
    \/ AcceptErrContinue
    \/ Dispatch

SessionNext(c) ==
    \/ AddLock(c)
    \/ AddConnection(c)
    \/ DecodeOK(c)
    \/ DecodeEOF(c)
    \/ DecodeErr(c)
    \/ EncodeOK(c)
    \/ EncodeErr(c)
    \/ DeferClose(c)
    \/ DeferRelease(c)
    \/ RemoveLock(c)
    \/ RemoveConnection(c)

\* The steps of a session that depend on the goroutine being scheduled
\* only, not on what the client does.
SessionInternal(c) ==
    \/ AddLock(c)
    \/ AddConnection(c)
    \/ DeferClose(c)
    \/ DeferRelease(c)
    \/ RemoveLock(c)
    \/ RemoveConnection(c)

ShutdownNext ==
    \/ ShutdownFire
    \/ ShutdownPanic
    \/ ShutdownCloseListener
    \/ ShutdownLock
    \/ \E c \in Conns : ShutdownCloseConn(c)
    \/ ShutdownUnlock
    \/ ShutdownReturn

Next ==
    \/ ClientConnect
    \/ CtxExpire
    \/ AcceptLoopNext
    \/ \E c \in Conns : SessionNext(c)
    \/ ShutdownNext

Spec == Init /\ [][Next]_vars

\* The Go scheduler runs every runnable goroutine; an Accept with a queued
\* connection does not fail forever.
FairSpec ==
    /\ Spec
    /\ WF_vars(AcceptLoopShutdown)
    /\ WF_vars(AcquirePermit)
    /\ SF_vars(AcceptOK)
    /\ WF_vars(AcceptErrShutdown)
    /\ WF_vars(AcceptErrContinue)
    /\ WF_vars(Dispatch)
    /\ \A c \in Conns : WF_vars(SessionInternal(c))

\* Accept on a closed listener returns its error; it does not block.
AcceptFailClosed == AcceptFail /\ listener = "closed"

\* The Go scheduler runs the accept loop and the Shutdown caller up to
\* the close of the listener; nothing is assumed of clients and sessions.
ShutdownFairSpec ==
    /\ Spec
    /\ WF_vars(AcceptLoopShutdown \/ AcquirePermit)
    /\ WF_vars(AcceptFailClosed)
    /\ WF_vars(AcceptErrShutdown)
    /\ WF_vars(Dispatch)
    /\ WF_vars(ShutdownCloseListener)

\* The goroutine that called Shutdown is scheduled; nothing is assumed of
\* the accept loop, the clients and the sessions.
ShutdownCallerFairSpec ==
    /\ Spec
    /\ WF_vars(ShutdownCloseListener)
    /\ WF_vars(ShutdownLock)
    /\ WF_vars(\E c \in Conns : ShutdownCloseConn(c))
    /\ WF_vars(ShutdownUnlock)
    /\ WF_vars(ShutdownReturn)

\* A session that is inside addConnection or removeConnection with
\* connMutex held goes on to its Unlock.
CriticalSectionsEnd ==
    \A c \in Conns : WF_vars(AddConnection(c)) /\ WF_vars(RemoveConnection(c))

TypeOK ==
    /\ shutdown \in BOOLEAN
    /\ listener \in {"open", "closed"}
    /\ connSem \in 0..(MaxConnections + 1)
    /\ acceptPc \in {"select", "accept", "dispatch", "acceptErr", "done"}
    /\ conns \subseteq Conns
    /\ connMutex \in {NoConn} \cup Conns \cup {ShutdownCaller}

-----------------------------------------------------------------------------
(* The request/response exchange of one connection: the loop of            *)
(* handleConnection with the contents of the messages. Spec leaves these   *)
(* contents out; MsgSpec follows one connection's stream.                  *)

\* Largest number of frames a client sends on the connection.
MaxFrames == 2

\* A JSON number hi * 2^30 + lo is written <<hi, lo>>; from hi = 2^23 on
\* the number is 2^53 or more and a float64 keeps only its even values.
TwoTo23 == 8388608

\* json decodes a number of an interface{} payload into a float64:
\* exact below 2^53, rounded to the nearest even mantissa in [2^53, 2^54).
Float64(n) ==
    IF n[1] < TwoTo23 \/ n[2] % 2 = 0
    THEN n
    ELSE IF ((n[2] - 1) \div 2) % 2 = 0 THEN <<n[1], n[2] - 1>>
                                        ELSE <<n[1], n[2] + 1>>

\* The fields of Message in high-performance-go-server.go.
FieldsGoServer == {"Type", "Payload", "Time"}

\* The fields of Message in the second copy of main.go.
FieldsPart000 == {"Type", "Payload", "Time", "ID", "Source"}

\* The json tag of a field of Message.
JsonKey(f) ==
    CASE f = "Type" -> "type"
      [] f = "Payload" -> "payload"
      [] f = "Time" -> "time"
      [] f = "ID" -> "id"
      [] f = "Source" -> "source"

\* The zero value a field keeps when the object has no such key.
Zero(f) == IF f = "Time" THEN 0 ELSE ""

\* What Decode stores in a field for the value of its key.
DecodeValue(f, v) == IF f = "Payload" THEN [v |-> Float64(v.v)] ELSE v

\* decoder.Decode(&msg): the keys that are tags of Message fill their
\* field, every other key of the object is dropped.
Decode(obj) ==
    [f \in msgFields |->
        IF JsonKey(f) \in DOMAIN obj THEN DecodeValue(f, obj[JsonKey(f)])
                                     ELSE Zero(f)]

\* encoder.Encode(msg): one key per field of Message.
Encode(m) ==
    [k \in {JsonKey(f) : f \in DOMAIN m} |->
        m[CHOOSE f \in DOMAIN m : JsonKey(f) = k]]

\* The numbers 1 and 2^53 + 1.
Numbers == {<<0, 1>>, <<TwoTo23, 1>>}

\* Well-formed requests of the wire protocol, with or without a time.
Requests ==
    [type : {"data"}, payload : {[v |-> n] : n \in Numbers},
     id : {"m1"}, source : {"c1"}]
    \cup
    [type : {"data"}, payload : {[v |-> n] : n \in Numbers},
     id : {"m1"}, source : {"c1"}, time : {1}]

\* A frame that is not a JSON value (truncated bytes).
Malformed == [malformed |-> TRUE]

IsMalformed(fr) == "malformed" \in DOMAIN fr

Frames == Requests \cup {Malformed}

\* Connection 1 has been accepted and registered and its session is at
\* the top of its loop; the client will send the frames of inStream.
MsgInit ==
    /\ shutdown = FALSE
    /\ listener = "open"
    /\ backlog = <<>>
    /\ accepted = {1}
    /\ connSem = 1
    /\ acceptPc = "select"
    /\ acceptConn = NoConn
    /\ sessPc = [c \in Conns |-> IF c = 1 THEN "decode" ELSE "none"]
    /\ sessCloses = [c \in Conns |-> 0]
    /\ sessReleases = [c \in Conns |-> 0]
    /\ closedBy = [c \in Conns |-> "open"]
    /\ conns = {1}
    /\ connMutex = NoConn
    /\ shutPc = "idle"
    /\ shutCalls = 0
    /\ shutSnapshot = {}
    /\ shutVisited = {}
    /\ closeErrLog = {}
    /\ shutResult = "none"
    /\ openAtShutdown = {}
    /\ ctxDone = FALSE
    /\ panicked = FALSE
    /\ msgFields \in {FieldsGoServer, FieldsPart000}
    /\ inStream \in UNION {[1..n -> Frames] : n \in 0..MaxFrames}
    /\ outStream = <<>>
    /\ msg = <<>>
    /\ msgPc = "decode"
    /\ nDecoded = 0
    /\ clock \in 10..11

\* decoder.Decode(&msg) returns nil.
MsgDecodeOK ==
    /\ msgPc = "decode"
    /\ nDecoded < Len(inStream)
    /\ ~IsMalformed(inStream[nDecoded + 1])
    /\ msg' = Decode(inStream[nDecoded + 1])
    /\ nDecoded' = nDecoded + 1
    /\ msgPc' = "encode"
    /\ UNCHANGED <<coreVars, msgFields, inStream, outStream, clock>>

\* decoder.Decode(&msg) returns EOF: the client has sent everything and
\* closed its end: return
MsgDecodeEOF ==
    /\ msgPc = "decode"
    /\ nDecoded = Len(inStream)
    /\ msgPc' = "exit"
    /\ UNCHANGED <<coreVars, msgFields, inStream, outStream, msg, nDecoded,
                   clock>>

\* decoder.Decode(&msg) returns another error, on a malformed frame or
\* because the stream was closed under the read: log, return
MsgDecodeErr ==
    /\ msgPc = "decode"
    /\ msgPc' = "exit"
    /\ UNCHANGED <<coreVars, msgFields, inStream, outStream, msg, nDecoded,
                   clock>>

\* Faulty variant: the response is written twice.
MsgEncodeOKTwice ==
    /\ msgPc = "encode"
    /\ msg' = [msg EXCEPT !["Time"] = clock]
    /\ outStream' = outStream \o <<Encode(msg'), Encode(msg')>>
    /\ clock' = clock + 1
    /\ msgPc' = "decode"
    /\ UNCHANGED <<coreVars, msgFields, inStream, nDecoded>>

\* msg.Time = time.Now(); encoder.Encode(msg) returns nil.
MsgEncodeOK ==
    /\ msgPc = "encode"
    /\ msg' = [msg EXCEPT !["Time"] = clock]
    /\ outStream' = Append(outStream, Encode(msg'))
    /\ clock' = clock + 1
    /\ msgPc' = "decode"
    /\ UNCHANGED <<coreVars, msgFields, inStream, nDecoded>>

\* msg.Time = time.Now(); encoder.Encode(msg) returns an error: log, return
MsgEncodeErr ==
    /\ msgPc = "encode"
    /\ msg' = [msg EXCEPT !["Time"] = clock]
    /\ clock' = clock + 1
    /\ msgPc' = "exit"
    /\ UNCHANGED <<coreVars, msgFields, inStream, outStream, nDecoded>>

MsgNext ==
    \/ MsgDecodeOK
    \/ MsgDecodeEOF
    \/ MsgDecodeErr
    \/ MsgEncodeOK
    \/ MsgEncodeErr

MsgSpec == MsgInit /\ [][MsgNext]_vars

-----------------------------------------------------------------------------
(* Claims *)

\* C1: once Shutdown has been invoked (the shutdown signal is fired), no
\* step adds an accepted connection and no step dispatches a session task.
C1_NoAcceptAfterShutdown ==
    [][shutdown => (accepted' = accepted /\ Dispatched' = Dispatched)]_vars

\* C2: when Shutdown has returned, every connection that was accepted and
\* whose session had not ended when Shutdown was invoked has been closed.
C2_ShutdownClosesAllOpen ==
    shutPc = "returned" => \A c \in openAtShutdown : closedBy[c] # "open"

\* C3: the outstanding permits never exceed MaxConnections, every accepted
\* connection that has not given its permit back is covered by an
\* outstanding permit, and a connection is accepted only by the accept loop
\* while it holds a permit that belongs to no earlier connection.
C3_PermitsBoundedAndHeld ==
    /\ [](connSem <= MaxConnections)
    /\ [](Cardinality(Holding) <= connSem)
    /\ [][accepted' # accepted =>
            /\ acceptPc = "accept"
            /\ connSem > Cardinality(Holding)]_vars

C3_Witness ==
    /\ connSem = MaxConnections
    /\ Cardinality(Holding) = MaxConnections
    /\ \E c \in Holding : sessPc[c] = "decode"

\* C4: the connections that have been accepted and whose session has not
\* released its permit never number more than MaxConnections, so a further
\* attempt stays in the accept queue while MaxConnections sessions run.
C4_AtMostCapacityAccepted ==
    Cardinality(Holding) <= MaxConnections

C4_Witness ==
    /\ ~shutdown
    /\ backlog # <<>>
    /\ Cardinality(Holding) = MaxConnections
    /\ \A c \in Holding : sessPc[c] \in {"decode", "encode"}

\* C5 as stated: while shutdown is not signaled, every queued connection
\* attempt is eventually accepted once fewer than MaxConnections sessions
\* hold permits.
C5_EveryPendingAccepted ==
    \A c \in Conns :
        (Pos(c) > 0 /\ Cardinality(Holding) < MaxConnections /\ ~shutdown)
            ~> (c \in accepted \/ shutdown)

\* C5 amended: while shutdown is not signaled, a queued connection attempt
\* is eventually accepted once the sessions holding permits together with
\* the attempts queued up to and including it number at most MaxConnections.
C5_PendingAcceptedInTurn ==
    \A c \in Conns :
        (Pos(c) > 0 /\ Pos(c) + Cardinality(Holding) <= MaxConnections /\ ~shutdown)
            ~> (c \in accepted \/ shutdown)

\* A held-back attempt was accepted after an earlier session gave its
\* permit back.
C5_Witness ==
    /\ ~shutdown
    /\ Cardinality(accepted) > MaxConnections
    /\ \E c \in accepted : sessReleases[c] = 1


\* C6: the shutdown signal never goes back to not-signaled, no call of
\* Shutdown panics, and a second or later call of Shutdown leaves the
\* signal, the listener and the registry as they were.
C6_LaterShutdownIsNoOp ==
    [][/\ shutdown => shutdown'
       /\ ~panicked'
       /\ (shutCalls >= 1 /\ shutCalls' = shutCalls + 1) =>
              (shutdown' = shutdown /\ listener' = listener /\ conns' = conns)]_vars

\* C7: a connection is in the registry exactly when its session task has
\* been dispatched and that task has not yet closed the stream.
C7_RegisteredIffSessionLive ==
    \A c \in Conns : c \in conns <=> (sessPc[c] # "none" /\ sessCloses[c] = 0)

\* C8: a session task never closes its stream or releases a permit more
\* than once, and a finished session task has closed its stream once,
\* released one permit and is no longer in the registry.
C8_SessionCleanup ==
    \A c \in Conns :
        /\ sessCloses[c] <= 1
        /\ sessReleases[c] <= 1
        /\ sessPc[c] = "done" =>
               (sessCloses[c] = 1 /\ sessReleases[c] = 1 /\ c \notin conns)

\* One session ended on its own and another after Shutdown closed its stream.
C8_Witness ==
    /\ \E c \in Conns : sessPc[c] = "done" /\ closedBy[c] = "session"
    /\ \E c \in Conns : sessPc[c] = "done" /\ closedBy[c] = "shutdown"

\* C9: the step in which Shutdown returns yields DeadlineExceeded exactly
\* when the context is done at that step and nil otherwise, and whenever
\* Shutdown has returned the signal is fired, the listener is closed and
\* Close has been called on every connection that was registered.
C9_ShutdownResult ==
    /\ [][(shutPc = "check" /\ shutPc' = "returned") =>
             (shutResult' = "DeadlineExceeded" <=> ctxDone) /\
             (shutResult' = "nil" <=> ~ctxDone)]_vars
    /\ [](shutPc = "returned" =>
             /\ shutdown
             /\ listener = "closed"
             /\ shutSnapshot \subseteq shutVisited)

C9_Witness ==
    /\ shutPc = "returned"
    /\ shutResult = "DeadlineExceeded"
    /\ shutVisited # {}

C13_AcceptErrorReleasesAndContinues ==
    [][(acceptPc = "acceptErr" /\ ~shutdown /\ acceptPc' # acceptPc) =>
          /\ connSem' = connSem - 1
          /\ acceptPc' = "select"
          /\ Dispatched' = Dispatched
          /\ accepted' = accepted]_vars

\* Accept has failed on the open listener with shutdown not signaled.
C13_Witness ==
    /\ acceptPc = "acceptErr"
    /\ ~shutdown
    /\ listener = "open"
    /\ connSem = MaxConnections


\* C14: once the shutdown signal is fired the accept loop eventually
\* returns, wherever it is (or the process has died of the panic of a
\* repeated Shutdown, which ends the loop as well).
C14_AcceptLoopTerminates ==
    shutdown ~> (acceptPc = "done" \/ panicked)

\* The loop has returned while every permit is held by a running session.
C14_Witness ==
    /\ shutdown
    /\ acceptPc = "done"
    /\ ~panicked
    /\ Cardinality(Holding) = MaxConnections
    /\ connSem = MaxConnections


\* C15: the listener is closed only after the signal is fired, Shutdown
\* closes a connection only after the listener is closed, it goes on to
\* the deadline check only after Close was called on every registered
\* connection, and it has a result only once it has returned.
C15_ShutdownOrder ==
    /\ listener = "closed" => shutdown
    /\ shutPc \in {"lock", "closing", "check", "returned"} => listener = "closed"
    /\ (shutVisited # {} \/ \E c \in Conns : closedBy[c] = "shutdown")
           => listener = "closed"
    /\ shutPc \in {"check", "returned"} => shutSnapshot \subseteq shutVisited
    /\ shutResult # "none" => shutPc = "returned"

C15_Witness ==
    /\ shutPc = "returned"
    /\ shutResult = "nil"
    /\ closeErrLog = {}
    /\ \E c \in Conns : closedBy[c] = "shutdown"

C18_RegistryLinearized ==
    /\ [](InCritical <= 1)
    /\ [](InCritical = 1 <=> connMutex # NoConn)
    /\ [][shutPc = "closing" => conns' = conns]_vars

\* Shutdown is between two Closes of its loop and a session waits for the lock.
C18_Witness ==
    /\ shutPc = "closing"
    /\ shutVisited # {}
    /\ ~(conns \subseteq shutVisited)
    /\ \E c \in Conns : sessPc[c] \in {"start", "deferRemove"}

C20_NoPermitLeaked ==
    connSem = Cardinality(PermitHolders) + LoopPermit

\* C20 amended: connSem holds the tokens of the sessions that have not
\* released theirs, plus the one the accept loop holds, plus at most one
\* more, and that one only once the accept loop has returned after the
\* shutdown signal.
C20_LeakOnlyAtShutdown ==
    /\ connSem - (Cardinality(PermitHolders) + LoopPermit) \in {0, 1}
    /\ connSem # Cardinality(PermitHolders) + LoopPermit =>
           (acceptPc = "done" /\ shutdown)

\* The loop has returned and every session is over, and one token is left.
C20_Witness ==
    /\ acceptPc = "done"
    /\ accepted # {}
    /\ \A c \in Conns : sessPc[c] \in {"none", "done"}
    /\ connSem = 1


\* C12: every response carries the type, payload, id and source of the
\* request it answers, and a time.
C12_EchoKeepsFields ==
    \A i \in 1..Len(outStream) :
        /\ "time" \in DOMAIN outStream[i]
        /\ \A k \in {"type", "payload", "id", "source"} :
               /\ k \in DOMAIN outStream[i]
               /\ outStream[i][k] = inStream[i][k]

\* C17: the responses written number the requests decoded or one less,
\* they are equal whenever the session is about to decode, a step that
\* decodes a request writes nothing, a step writes at most one response,
\* and a step that leaves the loop from Decode writes nothing.
C17_RequestsAndResponsesAlternate ==
    /\ [](Len(outStream) \in {nDecoded, nDecoded - 1})
    /\ [](msgPc = "decode" => Len(outStream) = nDecoded)
    /\ [][/\ Len(outStream') <= Len(outStream) + 1
          /\ nDecoded' # nDecoded =>
                 (nDecoded' = nDecoded + 1 /\ outStream' = outStream)
          /\ (msgPc = "decode" /\ msgPc' = "exit") => outStream' = outStream]_vars

\* One exchange was completed and the next frame failed to decode.
C17_Witness ==
    /\ msgPc = "exit"
    /\ nDecoded = 1
    /\ Len(outStream) = 1
    /\ Len(inStream) = 2
    /\ IsMalformed(inStream[2])

====
